---- MODULE Spec2Model ----
(***************************************************************************)
(* Model of console/handler_s3.go: the console's HTTP handlers that        *)
(* translate one REST request into calls against the auth node and the     *)
(* S3-compatible object store.                                             *)
(*                                                                         *)
(* Handlers share no mutable state, so one action serves one request from  *)
(* start to return (or to the panic that net/http recovers).  The state    *)
(* holds the request, the answers the auth node and the store gave, and    *)
(* everything the handler did: the auth calls, the store calls in order,   *)
(* the response writer, the body stream, the last error value.             *)
(*                                                                         *)
(* Strings are sequences of tokens, so that len(s), s1+s2,                 *)
(* strconv.ParseInt and strconv.FormatInt are computed, not assumed.       *)
(***************************************************************************)
EXTENDS Integers, Sequences, FiniteSets, TLC

VARIABLES
    handler,    \* name of the handler that served the request
    req,        \* the *http.Request it was given
    env,        \* what the auth node and the object store answered
    w,          \* the http.ResponseWriter after the handler returned
    calls,      \* the object-store calls issued, in order
    authCalls,  \* the AdminGetCaps calls issued, in order
    err,        \* the last error value a helper or a call returned
    panicked,   \* the handler goroutine panicked (net/http aborts the response)
    stream      \* the GetObject body stream: returned / times closed

vars == <<handler, req, env, w, calls, authCalls, err, panicked, stream>>

----------------------------------------------------------------------------
(* Bounds of the model *)

MaxStrLen == 2      \* longest maxKeys string a request carries
MaxObjectSize == 2  \* longest object payload the store holds

----------------------------------------------------------------------------
(* Strings *)

RECURSIVE SeqsUpTo(_, _)
SeqsUpTo(S, n) ==
    IF n = 0 THEN {<<>>}
    ELSE LET shorter == SeqsUpTo(S, n - 1)
         IN  shorter \cup {Append(s, x) : s \in {t \in shorter : Len(t) = n - 1}, x \in S}

Digits == <<"0", "1", "2", "3", "4", "5", "6", "7", "8", "9">>

IsDigit(ch) == \E i \in 1..10 : Digits[i] = ch

DigitVal(ch) == (CHOOSE i \in 1..10 : Digits[i] = ch) - 1

\* strconv.ParseInt(s, 10, 64): the value and the error it returns.  A string
\* of at most MaxStrLen digits is far inside the int64 range, so the range
\* error of ParseInt has no input here and only the syntax error is modelled.
RECURSIVE ParseDigits(_, _)
ParseDigits(s, acc) ==
    IF s = <<>> THEN [val |-> acc, err |-> "nil"]
    ELSE IF ~IsDigit(Head(s)) THEN [val |-> 0, err |-> "syntax"]
    ELSE ParseDigits(Tail(s), acc * 10 + DigitVal(Head(s)))

ParseInt(s) ==
    IF s = <<>> THEN [val |-> 0, err |-> "syntax"]
    ELSE LET neg  == Head(s) = "-"
             body == IF Head(s) \in {"+", "-"} THEN Tail(s) ELSE s
             u    == IF body = <<>> THEN [val |-> 0, err |-> "syntax"]
                     ELSE ParseDigits(body, 0)
         IN  IF u.err = "syntax" THEN [val |-> 0, err |-> "syntax"]
             ELSE IF neg THEN [val |-> 0 - u.val, err |-> u.err]
             ELSE u

\* strconv.FormatInt(n, 10)
RECURSIVE FormatNat(_)
FormatNat(n) ==
    IF n < 10 THEN <<Digits[n + 1]>>
    ELSE Append(FormatNat(n \div 10), Digits[(n % 10) + 1])

FormatInt(n) == IF n < 0 THEN <<"-">> \o FormatNat(0 - n) ELSE FormatNat(n)

\* const S3ListObjectsMaxKeys, the default page size of a listing, kept as a
\* string by the console package.
S3ListObjectsMaxKeys == <<"1", "0", "0", "0">>

----------------------------------------------------------------------------
(* Request bodies: encoding/json into map[string]interface{} *)

Absent == [t |-> "absent", v |-> <<>>]   \* the key is not in the body
Nil    == [t |-> "nil",    v |-> <<>>]   \* the nil interface{} a map lookup yields
Num    == [t |-> "number", v |-> <<>>]   \* a JSON number (float64 once decoded)
Str(s) == [t |-> "string", v |-> s]      \* a JSON string

EmptyMap == [k \in {} |-> Nil]

\* A JSON object built from a choice of value (or Absent) for each key.
Obj(choice) == [k \in {x \in DOMAIN choice : choice[x] # Absent} |-> choice[k]]

NotJSON     == [valid |-> FALSE, obj |-> EmptyMap]
JSONBody(o) == [valid |-> TRUE, obj |-> o]

\* json.Unmarshal(body, &req) with its error dropped: a body that does not
\* decode leaves req the nil map.
Unmarshal(body) == IF body.valid THEN body.obj ELSE EmptyMap

\* req[key]: the nil interface when the key is not in the map.
Lookup(m, k) == IF k \in DOMAIN m THEN m[k] ELSE Nil

\* req[key].(string) succeeds only on a string; otherwise it panics.
IsString(v) == v.t = "string"

----------------------------------------------------------------------------
(* http.ResponseWriter *)

HeaderNames == {"Content-Type", "Content-Disposition", "Content-Length"}

EmptyHeader == [h \in HeaderNames |-> <<>>]

\* header: the handler's header map; sent: the header map as it stood when the
\* status line was written, which is what goes on the wire.
NewResponseWriter ==
    [wroteHeader |-> FALSE, status |-> 0, header |-> EmptyHeader,
     sent |-> EmptyHeader, body |-> <<>>]

WriteHeader(rw, code) ==
    IF rw.wroteHeader THEN rw
    ELSE [rw EXCEPT !.wroteHeader = TRUE, !.status = code, !.sent = rw.header]

HeaderSet(rw, k, v) == [rw EXCEPT !.header[k] = v]

\* The first Write writes the status line when the handler has not.
Write(rw, item) ==
    LET x == WriteHeader(rw, 200)
    IN  [x EXCEPT !.body = Append(x.body, item)]

\* io.Copy(w, src): one Write per chunk read; an empty stream writes nothing.
Copy(rw, bytes) ==
    IF bytes = <<>> THEN rw
    ELSE Write(rw, [kind |-> "bytes", msg |-> <<>>, data |-> bytes])

\* The response envelopes.
writeErrorResponse(rw, msg) == Write(rw, [kind |-> "error", msg |-> <<msg>>, data |-> <<>>])

writeSuccessResponse(rw) == Write(rw, [kind |-> "success", msg |-> <<>>, data |-> <<>>])

writeDataResponse(rw, data) == Write(rw, [kind |-> "data", msg |-> <<>>, data |-> data])

----------------------------------------------------------------------------
(* What one handler invocation has done so far *)

NoStream == [returned |-> FALSE, closed |-> 0]

NewCtx ==
    [w |-> NewResponseWriter, calls |-> <<>>, authCalls |-> <<>>,
     err |-> "nil", panicked |-> FALSE, stream |-> NoStream]

\* A run-time panic: the handler stops where it is.
Panic(c) == [c EXCEPT !.panicked = TRUE]

\* if err != nil { log...; writeErrorResponse(w, msg); return }
Fail(c, e, msg) == [c EXCEPT !.err = e, !.w = writeErrorResponse(c.w, msg)]

\* One call on the S3 client.
StoreCall(c, client, op, input) ==
    [c EXCEPT !.calls = Append(c.calls, [op |-> op, creds |-> client.creds, input |-> input])]

NoClient == [creds |-> "none", region |-> "none", pathStyle |-> FALSE]

----------------------------------------------------------------------------
(* Credential resolver and client factory *)

\* getS3Keys: params["userId"] is the list of values of the query parameter.
getS3Keys(c, r, e) ==
    LET userId == r.userId
    IN  IF Len(userId) = 0
            THEN [c |-> Panic(c), err |-> "panic", keys |-> "none"]
        ELSE IF Len(userId[1]) = 0
            THEN [c |-> c, err |-> "userId", keys |-> "none"]
        ELSE LET c1 == [c EXCEPT !.authCalls = Append(c.authCalls, userId[1])]
             IN  IF ~e.authOk
                     THEN [c |-> c1, err |-> "auth", keys |-> "none"]
                     ELSE [c |-> c1, err |-> "nil", keys |-> "user"]

\* getS3Client as it would be if a failed lookup fell back to the credentials
\* written in the source.
getS3Client_fallback(c, r, e) ==
    LET k == getS3Keys(c, r, e)
    IN  IF k.c.panicked THEN [c |-> k.c, err |-> "panic", client |-> NoClient]
        ELSE IF ~e.sessOk THEN [c |-> k.c, err |-> "session", client |-> NoClient]
        ELSE [c |-> k.c, err |-> "nil",
              client |-> [creds |-> IF k.err # "nil" THEN "fallback" ELSE k.keys,
                          region |-> "s3Region", pathStyle |-> FALSE]]

getS3Client(c, r, e) ==
    LET k == getS3Keys(c, r, e)
    IN  IF k.c.panicked THEN [c |-> k.c, err |-> "panic", client |-> NoClient]
        ELSE IF k.err # "nil" THEN [c |-> k.c, err |-> k.err, client |-> NoClient]
        ELSE IF ~e.sessOk THEN [c |-> k.c, err |-> "session", client |-> NoClient]
        ELSE [c |-> k.c, err |-> "nil",
              client |-> [creds |-> k.keys, region |-> "s3Region", pathStyle |-> FALSE]]

----------------------------------------------------------------------------
(* Bucket handlers *)

\* The names of a listing's entries.
Names(contents) == [i \in 1..Len(contents) |-> contents[i].key]

getBucketListHandler(r, e) ==
    LET cl == getS3Client(NewCtx, r, e)
    IN  IF cl.c.panicked THEN cl.c
        ELSE IF cl.err # "nil" THEN Fail(cl.c, cl.err, "Get s3 client failed")
        ELSE LET c1 == StoreCall(cl.c, cl.client, "ListBuckets", <<>>)
             IN  IF ~e.call1Ok THEN Fail(c1, "store", "List buckets failed")
                 ELSE [c1 EXCEPT !.w = writeDataResponse(c1.w, Names(e.contents))]

createBucketHandler(r, e) ==
    LET rq == Unmarshal(r.body)
    IN  IF ~e.readOk THEN Fail(NewCtx, "readBody", "Create bucket failed")
        ELSE IF ~IsString(Lookup(rq, "bucketName")) THEN Panic(NewCtx)
        ELSE
        LET bucketName == rq["bucketName"].v
            cl == getS3Client(NewCtx, r, e)
        IN  IF cl.c.panicked THEN cl.c
            ELSE IF cl.err # "nil" THEN Fail(cl.c, cl.err, "Get s3 client failed")
            ELSE LET c1 == StoreCall(cl.c, cl.client, "CreateBucket", [Bucket |-> bucketName])
                 IN  IF ~e.call1Ok THEN Fail(c1, "store", "Create bucket failed")
                     ELSE [c1 EXCEPT !.w = writeSuccessResponse(c1.w)]

deleteBucketHandler(r, e) ==
    LET rq == Unmarshal(r.body)
    IN  IF ~e.readOk THEN Fail(NewCtx, "readBody", "Get bucket name failed")
        ELSE IF ~IsString(Lookup(rq, "bucketName")) THEN Panic(NewCtx)
        ELSE
        LET bucketName == rq["bucketName"].v
            cl == getS3Client(NewCtx, r, e)
        IN  IF cl.c.panicked THEN cl.c
            ELSE IF cl.err # "nil" THEN Fail(cl.c, cl.err, "Get s3 client failed")
            ELSE LET c1 == StoreCall(cl.c, cl.client, "DeleteBucket", [Bucket |-> bucketName])
                 IN  IF ~e.call1Ok THEN Fail(c1, "store", "Delete bucket failed")
                     ELSE
                     \* err = WaitUntilBucketNotExists(...): assigned, never read
                     LET c2 == StoreCall(c1, cl.client, "WaitUntilBucketNotExists",
                                         [Bucket |-> bucketName])
                         c3 == [c2 EXCEPT !.err = IF e.call2Ok THEN "nil" ELSE "store"]
                     IN  [c3 EXCEPT !.w = writeSuccessResponse(c3.w)]

----------------------------------------------------------------------------
(* Object handlers *)

putObjectHandler(r, e) ==
    \* r.MultipartForm is nil when the request is no multipart form
    IF ~r.form.parsed THEN Panic(NewCtx)
    ELSE IF Len(r.form.value["bucketName"]) = 0 THEN Panic(NewCtx)
    ELSE IF Len(r.form.value["objectName"]) = 0 THEN Panic(NewCtx)
    ELSE
    LET bucketName == r.form.value["bucketName"][1]
        objectName == r.form.value["objectName"][1]
    IN  IF ~r.form.hasFile THEN Fail(NewCtx, "formFile", "Put object failed")
        ELSE
        LET cl == getS3Client(NewCtx, r, e)
        IN  IF cl.c.panicked THEN cl.c
            ELSE IF cl.err # "nil" THEN Fail(cl.c, cl.err, "Get s3 client failed")
            ELSE LET c1 == StoreCall(cl.c, cl.client, "PutObject",
                                     [Bucket |-> bucketName, Key |-> objectName,
                                      Body |-> r.form.file])
                 IN  IF ~e.call1Ok THEN Fail(c1, "store", "Put object failed")
                     ELSE [c1 EXCEPT !.w = writeSuccessResponse(c1.w)]

getObjectHandler(r, e) ==
    LET rq == Unmarshal(r.body)
    IN  IF ~e.readOk THEN Fail(NewCtx, "readBody", "Get object parameters failed")
        ELSE IF ~IsString(Lookup(rq, "bucketName")) THEN Panic(NewCtx)
        ELSE IF ~IsString(Lookup(rq, "objectName")) THEN Panic(NewCtx)
        ELSE
        LET bucketName == rq["bucketName"].v
            objectName == rq["objectName"].v
            cl == getS3Client(NewCtx, r, e)
        IN  IF cl.c.panicked THEN cl.c
            ELSE IF cl.err # "nil" THEN Fail(cl.c, cl.err, "Get s3 client failed")
            ELSE
            LET c1 == StoreCall(cl.c, cl.client, "HeadObject",
                                [Bucket |-> bucketName, Key |-> objectName])
            IN  \* the probe failed: logged, then a bare return
                IF ~e.call1Ok THEN [c1 EXCEPT !.err = "store"]
                ELSE
                LET size == Len(e.object)
                    c2 == StoreCall(c1, cl.client, "GetObject",
                                    [Bucket |-> bucketName, Key |-> objectName])
                IN  \* responseData is the nil io.ReadCloser when the call failed:
                    \* defer responseData.Close() evaluates the method value of a
                    \* nil interface and panics before err is looked at
                    IF ~e.call2Ok THEN Panic([c2 EXCEPT !.err = "store"])
                    ELSE
                    LET w1 == WriteHeader(c2.w, 200)
                        w2 == HeaderSet(w1, "Content-Type", r.contentType)
                        w3 == HeaderSet(w2, "Content-Disposition",
                                        <<"attachment; filename=">> \o objectName)
                        w4 == HeaderSet(w3, "Content-Length", FormatInt(size))
                        w5 == Copy(w4, e.object)
                    IN  \* the deferred Close runs as the handler returns
                        [c2 EXCEPT !.w = w5,
                                   !.stream = [returned |-> TRUE, closed |-> 1]]

deleteObjectHandler(r, e) ==
    LET rq == Unmarshal(r.body)
    IN  IF ~e.readOk THEN Fail(NewCtx, "readBody", "Get object parameters from request failed")
        ELSE IF ~IsString(Lookup(rq, "bucketName")) THEN Panic(NewCtx)
        ELSE IF ~IsString(Lookup(rq, "objectName")) THEN Panic(NewCtx)
        ELSE
        LET bucketName == rq["bucketName"].v
            objectName == rq["objectName"].v
            cl == getS3Client(NewCtx, r, e)
        IN  IF cl.c.panicked THEN cl.c
            ELSE IF cl.err # "nil" THEN Fail(cl.c, cl.err, "Get s3 client failed")
            ELSE LET c1 == StoreCall(cl.c, cl.client, "DeleteObject",
                                     [Bucket |-> bucketName, Key |-> objectName])
                 IN  IF ~e.call1Ok THEN Fail(c1, "store", "Delete object failed")
                     ELSE [c1 EXCEPT !.w = writeSuccessResponse(c1.w)]

getObjectListHandler(r, e) ==
    LET rq == Unmarshal(r.body)
    IN  IF ~e.readOk THEN Fail(NewCtx, "readBody", "Get bucket name from request failed")
        ELSE IF ~IsString(Lookup(rq, "prefix")) THEN Panic(NewCtx)
        ELSE IF ~IsString(Lookup(rq, "maxKeys")) THEN Panic(NewCtx)
        ELSE IF ~IsString(Lookup(rq, "startAfter")) THEN Panic(NewCtx)
        ELSE IF ~IsString(Lookup(rq, "bucketName")) THEN Panic(NewCtx)
        ELSE
        LET prefix     == rq["prefix"].v
            maxKeys    == rq["maxKeys"].v
            startAfter == rq["startAfter"].v
            bucketName == rq["bucketName"].v
            cl == getS3Client(NewCtx, r, e)
        IN  IF cl.c.panicked THEN cl.c
            ELSE IF cl.err # "nil" THEN Fail(cl.c, cl.err, "Get s3 client failed")
            ELSE
            LET \* maxKeysInt is overwritten by the second ParseInt, whose error is
                \* only logged
                maxKeysInt == IF Len(maxKeys) > 0 THEN ParseInt(maxKeys).val
                              ELSE ParseInt(S3ListObjectsMaxKeys).val
                input == [Bucket |-> bucketName,
                          hasPrefix |-> Len(prefix) > 0, Prefix |-> prefix,
                          hasStartAfter |-> Len(startAfter) > 0, StartAfter |-> startAfter,
                          MaxKeys |-> maxKeysInt]
                c1 == StoreCall(cl.c, cl.client, "ListObjectsV2", input)
            IN  IF ~e.call1Ok THEN Fail(c1, "store", "Delete object failed")
                \* o.Owner.ID dereferences the entry's Owner
                ELSE IF \E i \in 1..Len(e.contents) : ~e.contents[i].owner THEN Panic(c1)
                ELSE [c1 EXCEPT !.w = writeDataResponse(c1.w,
                                         [KeyCount |-> Len(e.contents),
                                          Objects |-> Names(e.contents),
                                          Directories |-> <<>>])]

----------------------------------------------------------------------------
(* ACL and folder handlers *)

\* The first of args that is no key of the decoded body, 0 when none is.
RECURSIVE FirstMissing(_, _, _)
FirstMissing(m, args, i) ==
    IF i > Len(args) THEN 0
    ELSE IF args[i] \notin DOMAIN m THEN i
    ELSE FirstMissing(m, args, i + 1)

\* prepareHandler as it would be without the loop over args.
prepareHandler_nocheck(r, e, args) ==
    LET rq == Unmarshal(r.body)
    IN  IF ~e.readOk THEN [err |-> "readBody", client |-> NoClient, req |-> EmptyMap]
        ELSE IF ~e.sessOk THEN [err |-> "session", client |-> NoClient, req |-> EmptyMap]
        ELSE [err |-> "nil",
              client |-> [creds |-> "fallback", region |-> "cfs_default", pathStyle |-> TRUE],
              req |-> rq]

\* prepareHandler: the client is built from the credentials written in the
\* source, without the auth node.
prepareHandler(r, e, args) ==
    LET rq == Unmarshal(r.body)
    IN  IF ~e.readOk THEN [err |-> "readBody", client |-> NoClient, req |-> EmptyMap]
        ELSE IF FirstMissing(rq, args, 1) # 0
            THEN [err |-> "paramMissing", client |-> NoClient, req |-> EmptyMap]
        ELSE IF ~e.sessOk THEN [err |-> "session", client |-> NoClient, req |-> EmptyMap]
        ELSE [err |-> "nil",
              client |-> [creds |-> "fallback", region |-> "cfs_default", pathStyle |-> TRUE],
              req |-> rq]

createFolderHandler(r, e) ==
    LET p == prepareHandler(r, e, <<"bucketName", "folderName", "parentName">>)
    IN  IF p.err # "nil" THEN Fail(NewCtx, p.err, "create folder failed!!!")
        ELSE IF ~IsString(Lookup(p.req, "bucketName")) THEN Panic(NewCtx)
        ELSE IF ~IsString(Lookup(p.req, "folderName")) THEN Panic(NewCtx)
        ELSE IF ~IsString(Lookup(p.req, "parentName")) THEN Panic(NewCtx)
        ELSE LET c1 == StoreCall(NewCtx, p.client, "PutObject",
                                 [Bucket |-> p.req["bucketName"].v,
                                  Key |-> p.req["parentName"].v \o p.req["folderName"].v,
                                  Body |-> <<>>])
             IN  IF ~e.call1Ok THEN Fail(c1, "store", "create folder failed!!!")
                 ELSE [c1 EXCEPT !.w = writeSuccessResponse(c1.w)]

getBucketAclHandler(r, e) ==
    LET p == prepareHandler(r, e, <<"bucketName">>)
    IN  IF p.err # "nil" THEN Fail(NewCtx, p.err, "get bucket acl failed!!!")
        ELSE IF ~IsString(Lookup(p.req, "bucketName")) THEN Panic(NewCtx)
        ELSE LET c1 == StoreCall(NewCtx, p.client, "GetBucketAcl",
                                 [Bucket |-> p.req["bucketName"].v])
             IN  IF ~e.call1Ok THEN Fail(c1, "store", "get bucket acl failed!!!")
                 ELSE [c1 EXCEPT !.w = writeDataResponse(c1.w, e.acl)]

setBucketAclHandler(r, e) ==
    LET p == prepareHandler(r, e, <<"bucketName">>)
    IN  IF p.err # "nil" THEN Fail(NewCtx, p.err, "set bucket acl failed!!!")
        ELSE IF ~IsString(Lookup(p.req, "bucketName")) THEN Panic(NewCtx)
        ELSE LET c1 == StoreCall(NewCtx, p.client, "PutBucketAcl",
                                 [Bucket |-> p.req["bucketName"].v])
             IN  IF ~e.call1Ok THEN Fail(c1, "store", "set bucket acl failed!!!")
                 ELSE [c1 EXCEPT !.w = writeSuccessResponse(c1.w)]

getObjectAclHandler(r, e) ==
    LET p == prepareHandler(r, e, <<"bucketName", "objectName">>)
    IN  IF p.err # "nil" THEN Fail(NewCtx, p.err, "get object acl failed!!!")
        ELSE IF ~IsString(Lookup(p.req, "bucketName")) THEN Panic(NewCtx)
        ELSE IF ~IsString(Lookup(p.req, "objectName")) THEN Panic(NewCtx)
        ELSE LET c1 == StoreCall(NewCtx, p.client, "GetObjectAcl",
                                 [Bucket |-> p.req["bucketName"].v,
                                  Key |-> p.req["objectName"].v])
             IN  IF ~e.call1Ok THEN Fail(c1, "store", "get object acl failed!!!")
                 ELSE [c1 EXCEPT !.w = writeDataResponse(c1.w, e.acl)]

setObjectAclHandler(r, e) ==
    LET p == prepareHandler(r, e, <<"bucketName", "objectName">>)
    IN  IF p.err # "nil" THEN Fail(NewCtx, p.err, "set object acl failed!!!")
        ELSE IF ~IsString(Lookup(p.req, "bucketName")) THEN Panic(NewCtx)
        ELSE IF ~IsString(Lookup(p.req, "objectName")) THEN Panic(NewCtx)
        ELSE LET c1 == StoreCall(NewCtx, p.client, "PutObjectAcl",
                                 [Bucket |-> p.req["bucketName"].v,
                                  Key |-> p.req["objectName"].v])
             IN  IF ~e.call1Ok THEN Fail(c1, "store", "set object acl failed!!!")
                 ELSE [c1 EXCEPT !.w = writeSuccessResponse(c1.w)]

----------------------------------------------------------------------------
(* Requests and the answers of the auth node and the store *)

\* params["userId"]: no such parameter, an empty value, a user.
UserIds == {<<>>, << <<>> >>, << <<"u">> >>}

NoForm == [parsed |-> FALSE, value |-> [bucketName |-> <<>>, objectName |-> <<>>],
           hasFile |-> FALSE, file |-> <<>>]

Payloads == SeqsUpTo({"x"}, MaxObjectSize)

Forms ==
    {NoForm} \cup
    [parsed : {TRUE}, value : [bucketName : {<<>>, << <<"b">> >>},
                               objectName : {<<>>, << <<"o">> >>}],
     hasFile : {TRUE}, file : Payloads] \cup
    [parsed : {TRUE}, value : [bucketName : {<<>>, << <<"b">> >>},
                               objectName : {<<>>, << <<"o">> >>}],
     hasFile : {FALSE}, file : {<<>>}]

\* A key of a JSON body: left out, of the wrong type, or one of strs.
Opt(strs) == {Absent, Num} \cup {Str(x) : x \in strs}

\* A key that is left out or one of strs.
OptStr(strs) == {Absent} \cup {Str(x) : x \in strs}

Request(u, ct, b, f) == [userId |-> u, contentType |-> ct, body |-> b, form |-> f]

NoBody == JSONBody(EmptyMap)

BucketBodies ==
    {NotJSON} \cup {JSONBody(Obj([bucketName |-> b])) : b \in Opt({<<"b">>})}

ObjectBodies ==
    {NotJSON} \cup
    {JSONBody(Obj([bucketName |-> b, objectName |-> o])) :
        b \in Opt({<<"b">>}), o \in Opt({<<"o">>})}

ListBodies ==
    {NotJSON} \cup
    {JSONBody(Obj([bucketName |-> b, prefix |-> p, startAfter |-> a, maxKeys |-> m])) :
        b \in Opt({<<"b">>}), p \in OptStr({<<>>, <<"p">>}), a \in OptStr({<<>>, <<"s">>}),
        m \in Opt(SeqsUpTo({"1", "a", "-"}, MaxStrLen))}

FolderBodies ==
    {NotJSON} \cup
    {JSONBody(Obj([bucketName |-> b, folderName |-> f, parentName |-> p])) :
        b \in Opt({<<"b">>}), f \in Opt({<<"f/">>}), p \in Opt({<<>>, <<"d/">>})}

\* One entry of a listing; owner: the entry carries an Owner.
Listings ==
    {<<>>, <<[key |-> <<"k">>, owner |-> TRUE]>>, <<[key |-> <<"k">>, owner |-> FALSE]>>}

\* The answers given to one request: whether the body could be read, whether
\* AdminGetCaps, session.NewSession and the first and second store call
\* succeeded, and what the store holds.
Envs(second, objects, listings) ==
    [readOk : BOOLEAN, authOk : BOOLEAN, sessOk : BOOLEAN, call1Ok : BOOLEAN,
     call2Ok : second, object : objects, contents : listings, acl : {<<"FULL_CONTROL">>}]

----------------------------------------------------------------------------
(* The server *)

Idle == "idle"

Init ==
    /\ handler = Idle
    /\ req = Request(<<>>, <<>>, NoBody, NoForm)
    /\ env = CHOOSE x \in Envs({TRUE}, {<<>>}, {<<>>}) :
                 x.readOk /\ x.authOk /\ x.sessOk /\ x.call1Ok
    /\ w = NewCtx.w
    /\ calls = NewCtx.calls
    /\ authCalls = NewCtx.authCalls
    /\ err = NewCtx.err
    /\ panicked = NewCtx.panicked
    /\ stream = NewCtx.stream

\* The idle server hands request r to handler h, which runs to its end c.
Serve(h, r, e, c) ==
    /\ handler' = h
    /\ req' = r
    /\ env' = e
    /\ w' = c.w
    /\ calls' = c.calls
    /\ authCalls' = c.authCalls
    /\ err' = c.err
    /\ panicked' = c.panicked
    /\ stream' = c.stream

GetBucketList ==
    /\ handler = Idle
    /\ \E u \in UserIds, e \in Envs({TRUE}, {<<>>}, Listings) :
           LET r == Request(u, <<>>, NoBody, NoForm)
           IN  Serve("getBucketListHandler", r, e, getBucketListHandler(r, e))

CreateBucket ==
    /\ handler = Idle
    /\ \E u \in UserIds, b \in BucketBodies, e \in Envs({TRUE}, {<<>>}, {<<>>}) :
           LET r == Request(u, <<>>, b, NoForm)
           IN  Serve("createBucketHandler", r, e, createBucketHandler(r, e))

DeleteBucket ==
    /\ handler = Idle
    /\ \E u \in UserIds, b \in BucketBodies, e \in Envs(BOOLEAN, {<<>>}, {<<>>}) :
           LET r == Request(u, <<>>, b, NoForm)
           IN  Serve("deleteBucketHandler", r, e, deleteBucketHandler(r, e))

PutObject ==
    /\ handler = Idle
    /\ \E u \in UserIds, f \in Forms, e \in Envs({TRUE}, {<<>>}, {<<>>}) :
           LET r == Request(u, <<>>, NoBody, f)
           IN  Serve("putObjectHandler", r, e, putObjectHandler(r, e))

GetObject ==
    /\ handler = Idle
    /\ \E u \in UserIds, ct \in {<<>>, <<"application/json">>}, b \in ObjectBodies,
       e \in Envs(BOOLEAN, Payloads, {<<>>}) :
           LET r == Request(u, ct, b, NoForm)
           IN  Serve("getObjectHandler", r, e, getObjectHandler(r, e))

DeleteObject ==
    /\ handler = Idle
    /\ \E u \in UserIds, b \in ObjectBodies, e \in Envs({TRUE}, {<<>>}, {<<>>}) :
           LET r == Request(u, <<>>, b, NoForm)
           IN  Serve("deleteObjectHandler", r, e, deleteObjectHandler(r, e))

GetObjectList ==
    /\ handler = Idle
    /\ \E u \in UserIds, b \in ListBodies, e \in Envs({TRUE}, {<<>>}, Listings) :
           LET r == Request(u, <<>>, b, NoForm)
           IN  Serve("getObjectListHandler", r, e, getObjectListHandler(r, e))

CreateFolder ==
    /\ handler = Idle
    /\ \E b \in FolderBodies, e \in Envs({TRUE}, {<<>>}, {<<>>}) :
           LET r == Request(<<>>, <<>>, b, NoForm)
           IN  Serve("createFolderHandler", r, e, createFolderHandler(r, e))

GetBucketAcl ==
    /\ handler = Idle
    /\ \E b \in BucketBodies, e \in Envs({TRUE}, {<<>>}, {<<>>}) :
           LET r == Request(<<>>, <<>>, b, NoForm)
           IN  Serve("getBucketAclHandler", r, e, getBucketAclHandler(r, e))

SetBucketAcl ==
    /\ handler = Idle
    /\ \E b \in BucketBodies, e \in Envs({TRUE}, {<<>>}, {<<>>}) :
           LET r == Request(<<>>, <<>>, b, NoForm)
           IN  Serve("setBucketAclHandler", r, e, setBucketAclHandler(r, e))

GetObjectAcl ==
    /\ handler = Idle
    /\ \E b \in ObjectBodies, e \in Envs({TRUE}, {<<>>}, {<<>>}) :
           LET r == Request(<<>>, <<>>, b, NoForm)
           IN  Serve("getObjectAclHandler", r, e, getObjectAclHandler(r, e))

SetObjectAcl ==
    /\ handler = Idle
    /\ \E b \in ObjectBodies, e \in Envs({TRUE}, {<<>>}, {<<>>}) :
           LET r == Request(<<>>, <<>>, b, NoForm)
           IN  Serve("setObjectAclHandler", r, e, setObjectAclHandler(r, e))

\* The handler has returned (or its panic was recovered); the server waits
\* for the next request.  Nothing of a request outlives it.
NextRequest ==
    /\ handler # Idle
    /\ handler' = Idle
    /\ req' = Request(<<>>, <<>>, NoBody, NoForm)
    /\ env' = CHOOSE x \in Envs({TRUE}, {<<>>}, {<<>>}) :
                  x.readOk /\ x.authOk /\ x.sessOk /\ x.call1Ok
    /\ w' = NewCtx.w
    /\ calls' = NewCtx.calls
    /\ authCalls' = NewCtx.authCalls
    /\ err' = NewCtx.err
    /\ panicked' = NewCtx.panicked
    /\ stream' = NewCtx.stream

Next ==
    \/ GetBucketList
    \/ CreateBucket
    \/ DeleteBucket
    \/ PutObject
    \/ GetObject
    \/ DeleteObject
    \/ GetObjectList
    \/ CreateFolder
    \/ GetBucketAcl
    \/ SetBucketAcl
    \/ GetObjectAcl
    \/ SetObjectAcl
    \/ NextRequest

Spec == Init /\ [][Next]_vars

----------------------------------------------------------------------------
(* Vocabulary of the properties *)

S3ClientHandlers ==
    {"getBucketListHandler", "createBucketHandler", "deleteBucketHandler",
     "putObjectHandler", "getObjectHandler", "deleteObjectHandler",
     "getObjectListHandler"}

AclFolderHandlers ==
    {"getBucketAclHandler", "setBucketAclHandler", "getObjectAclHandler",
     "setObjectAclHandler", "createFolderHandler"}

JSONHandlers == (S3ClientHandlers \ {"getBucketListHandler", "putObjectHandler"})
                    \cup AclFolderHandlers

\* The fields a handler's request body must carry.
Required(h) ==
    CASE h \in {"createBucketHandler", "deleteBucketHandler", "getObjectListHandler",
                "getBucketAclHandler", "setBucketAclHandler"} -> {"bucketName"}
      [] h \in {"getObjectHandler", "deleteObjectHandler",
                "getObjectAclHandler", "setObjectAclHandler"} -> {"bucketName", "objectName"}
      [] h = "createFolderHandler" -> {"bucketName", "folderName", "parentName"}
      [] OTHER -> {}

\* The response is exactly one envelope of the given kind, and the handler
\* returned normally.
Envelope(kind) ==
    /\ ~panicked
    /\ Len(w.body) = 1
    /\ w.body[1].kind = kind

ErrorEnvelope == Envelope("error")

Called(op) == \E i \in 1..Len(calls) : calls[i].op = op

\* The user identifier is missing: no userId parameter, or an empty one.
UserIdAbsent == req.userId = <<>>
UserIdEmpty  == req.userId # <<>> /\ req.userId[1] = <<>>

\* The request is one the handler can read up to its credential lookup.
BodyHasStrings(keys) ==
    /\ env.readOk
    /\ req.body.valid
    /\ \A k \in keys : k \in DOMAIN req.body.obj /\ req.body.obj[k].t = "string"

ReachesLookup ==
    CASE handler = "getBucketListHandler" -> TRUE
      [] handler = "putObjectHandler" ->
            /\ req.form.parsed
            /\ req.form.value["bucketName"] # <<>>
            /\ req.form.value["objectName"] # <<>>
            /\ req.form.hasFile
      [] handler = "getObjectListHandler" ->
            BodyHasStrings({"bucketName", "prefix", "startAfter", "maxKeys"})
      [] OTHER -> BodyHasStrings(Required(handler))

DefaultMaxKeys == ParseInt(S3ListObjectsMaxKeys).val

\* The bytes of the response body.
RECURSIVE BytesOf(_)
BytesOf(items) ==
    IF items = <<>> THEN <<>>
    ELSE (IF Head(items).kind = "bytes" THEN Head(items).data ELSE <<>>) \o BytesOf(Tail(items))

----------------------------------------------------------------------------
(* Properties *)

\* C1: in every handler that resolves credentials through getS3Client, when
\* the AdminGetCaps lookup fails no object-store call is issued, no fallback
\* credentials are used, and the request ends with an error envelope.
C1_AuthFailureIssuesNoStoreCall ==
    (handler \in S3ClientHandlers /\ authCalls # <<>> /\ ~env.authOk)
        => /\ calls = <<>>
           /\ err = "auth"
           /\ ErrorEnvelope

C1_Witness ==
    /\ handler = "createBucketHandler"
    /\ authCalls = << <<"u">> >>
    /\ ~env.authOk
    /\ env.call1Ok
    /\ calls = <<>>
    /\ ErrorEnvelope
    /\ w.body[1].msg = <<"Get s3 client failed">>

\* C2: in the ACL and folder handlers, a request body that lacks a required
\* field ends in the parameter-missing failure, reported as an error
\* envelope, and the object store is never invoked.  (When the body cannot be
\* read at all the failure is the read error, reported the same way.)
C2_MissingFieldNeverReachesStore ==
    (/\ handler \in AclFolderHandlers
     /\ \/ ~req.body.valid
        \/ \E k \in Required(handler) : k \notin DOMAIN req.body.obj)
        => /\ env.readOk => err = "paramMissing"
           /\ ErrorEnvelope
           /\ calls = <<>>

C2_Witness ==
    /\ handler = "createFolderHandler"
    /\ env.readOk /\ env.sessOk /\ env.call1Ok
    /\ req.body.valid
    /\ DOMAIN req.body.obj = {"bucketName", "folderName"}
    /\ err = "paramMissing"
    /\ ErrorEnvelope
    /\ calls = <<>>

\* C3: a get-object request whose metadata probe (HeadObject) fails ends with
\* an error envelope written to the caller, never with no response.
C3_ProbeFailureWritesErrorEnvelope ==
    (handler = "getObjectHandler" /\ Called("HeadObject") /\ ~env.call1Ok)
        => ErrorEnvelope

\* C4: delete-bucket writes the success envelope only when DeleteBucket and
\* the existence poll WaitUntilBucketNotExists both succeeded; when either
\* fails the request ends with an error envelope.
C4_DeleteBucketSuccessOnlyAfterConfirmed ==
    (handler = "deleteBucketHandler" /\ Called("DeleteBucket")
        /\ (~env.call1Ok \/ (Called("WaitUntilBucketNotExists") /\ ~env.call2Ok)))
        => /\ ErrorEnvelope
           /\ \A i \in 1..Len(w.body) : w.body[i].kind # "success"

\* C5: in list-objects, a non-empty maxKeys that does not parse as an integer
\* makes the ListObjectsV2 call carry the default max-keys, and the request
\* still succeeds.
C5_UnparsableMaxKeysFallsBackToDefault ==
    (/\ handler = "getObjectListHandler"
     /\ Called("ListObjectsV2")
     /\ req.body.obj["maxKeys"].v # <<>>
     /\ ParseInt(req.body.obj["maxKeys"].v).err # "nil")
        => /\ calls[1].input.MaxKeys = DefaultMaxKeys
           /\ (env.call1Ok /\ (\A i \in 1..Len(env.contents) : env.contents[i].owner)
                  => Envelope("data"))

\* C6: the credential resolver fails with an error value, which the handler
\* reports as an error envelope, whenever the user identifier is missing,
\* be the userId parameter empty or absent; the auth service is not called
\* and the handler is not aborted.
C6_MissingUserIdIsAnErrorValue ==
    (handler \in S3ClientHandlers /\ ReachesLookup /\ (UserIdAbsent \/ UserIdEmpty))
        => /\ err = "userId"
           /\ authCalls = <<>>
           /\ ErrorEnvelope

\* C7: a successful get-object sends its status line with the headers
\* Content-Type (echoed from the request), Content-Disposition=attachment and
\* Content-Length (the size the probe resolved) in effect, followed by
\* exactly the object's bytes.
C7_GetObjectHeadersInEffect ==
    (handler = "getObjectHandler" /\ stream.returned /\ ~panicked)
        => /\ w.wroteHeader
           /\ w.sent["Content-Type"] = req.contentType
           /\ w.sent["Content-Disposition"] # <<>>
           /\ Head(w.sent["Content-Disposition"]) = "attachment; filename="
           /\ w.sent["Content-Length"] = FormatInt(Len(env.object))
           /\ BytesOf(w.body) = env.object

\* C8: in every JSON-body handler a malformed body (not JSON, or a required
\* field of a non-string type) is caught by the handler: the request ends
\* with an error envelope and no object-store call is issued.
C8_MalformedBodyIsCaught ==
    (/\ handler \in JSONHandlers
     /\ env.readOk
     /\ \/ ~req.body.valid
        \/ \E k \in Required(handler) :
               k \in DOMAIN req.body.obj /\ req.body.obj[k].t # "string")
        => /\ ErrorEnvelope
           /\ calls = <<>>

\* C9: a list-objects request whose body holds only bucketName, with valid
\* credentials and a store that answers, issues one ListObjectsV2 call with
\* no prefix, no start-after cursor and the default max-keys, and returns a
\* data envelope.
C9_ListWithOnlyBucketName ==
    (/\ handler = "getObjectListHandler"
     /\ env.readOk /\ env.authOk /\ env.sessOk /\ env.call1Ok
     /\ \A i \in 1..Len(env.contents) : env.contents[i].owner
     /\ req.userId = << <<"u">> >>
     /\ req.body.valid
     /\ DOMAIN req.body.obj = {"bucketName"}
     /\ req.body.obj["bucketName"].t = "string")
        => /\ Len(calls) = 1
           /\ calls[1].op = "ListObjectsV2"
           /\ ~calls[1].input.hasPrefix
           /\ ~calls[1].input.hasStartAfter
           /\ calls[1].input.MaxKeys = DefaultMaxKeys
           /\ Envelope("data")

\* C10: in get-object, when the probe succeeds and GetObject fails, the
\* handler writes the error envelope "Get object failed" and neither uses nor
\* closes a body stream that was never returned; whenever GetObject returned
\* a body, the body is closed exactly once.
C10_GetObjectFailureIsScoped ==
    /\ (handler = "getObjectHandler" /\ Called("GetObject") /\ ~env.call2Ok)
          => /\ ErrorEnvelope
             /\ w.body[1].msg = <<"Get object failed">>
             /\ stream = NoStream
    /\ (handler = "getObjectHandler" /\ stream.returned) => stream.closed = 1

====
